---- MODULE Spec2Model ----
(***************************************************************************)
(* A model of the mc-ping status codec: the VarInt/VarLong conversions of  *)
(* src/varint.rs, the packets of src/packets.rs and the Connection of      *)
(* src/connection.rs with its calls and its transport.                     *)
(*                                                                         *)
(* Machine integers are modelled as two's-complement bit vectors, i.e.     *)
(* functions [0..W-1 -> {0,1}] with bit 0 the least significant, so that   *)
(* shifts and masks are the ones the code performs at width 32 and 64.     *)
(* Bytes (u8) are the integers 0..255.  Fixed arrays ([u8; N]) are         *)
(* functions on 0..N-1, as the code indexes them; Vec<u8>, &[u8] and       *)
(* String contents are sequences of bytes.                                 *)
(***************************************************************************)
EXTENDS Integers, Sequences, FiniteSets, TLC

VARIABLES
    cW,      \* codec: width of the value under conversion (32: i32, 64: i64)
    cval,    \* codec: the value handed to From<i32>/From<i64>
    cvar,    \* codec: the VarInt/VarLong built from it (an outcome record)
    cback,   \* codec: the value converted back from cvar (an outcome record)
    csize,   \* codec: the result of VarInt::size on cvar (0: not called)
    cout,    \* codec: the bytes a serializer emitted for cvar (an outcome record)
    input,   \* parser: the byte slice / in-memory stream handed to a reader
    pres,    \* parser: the outcome of the reader that ran on input
    hs,      \* handshake: the ClientHandshake value (kind "none" before new)
    hsout,   \* handshake: the Vec<u8> the last to_bytes returned (an outcome record)
    sent,    \* transport: every byte the server sends on the connection
    wire,    \* transport: the bytes not yet delivered to a read
    eof,     \* transport: the server closes once wire is drained
    rpc,     \* transport: position of __read_status_packet ("idle", "done")
    resp,    \* transport: what __read_status_packet produced (an outcome record)
    resolve, \* connection: the build has feature "resolve"
    conns,   \* connection: the Connection values created so far, in order
    call,    \* connection: the async call under way and its position
    calls,   \* connection: calls started and connects succeeded, <<name, connection>>
    ret      \* connection: which operation returned last (of), and what (res)

codecVars == <<cW, cval, cvar, cback, csize, cout>>
parseVars == <<input, pres>>
hsVars    == <<hs, hsout>>
readVars  == <<sent, wire, eof, rpc, resp>>
connVars  == <<resolve, conns, call, calls, ret>>
vars      == <<cW, cval, cvar, cback, csize, cout, input, pres, hs, hsout,
               sent, wire, eof, rpc, resp, resolve, conns, call, calls, ret>>

(***************************************************************************)
(* Program constants.                                                      *)
(***************************************************************************)
VarIntSize  == 5
VarLongSize == 10
I32Bits     == 32
I64Bits     == 64
ProtocolVersion == 768
NextStateStatus == 1
ReadBufLen  == 10000

(***************************************************************************)
(* Outcome records.  A panic is an outcome of its own: the caller gets no  *)
(* value and no error.                                                     *)
(***************************************************************************)
None      == [kind |-> "none"]
Panic(w)  == [kind |-> "panic", why |-> w]
Ok(v)     == [kind |-> "ok", val |-> v]
Err(e)    == [kind |-> "err", err |-> e]

Min(a, b) == IF a <= b THEN a ELSE b

(***************************************************************************)
(* Two's-complement bit vectors.                                           *)
(***************************************************************************)
Pow2(k) == 2 ^ k

\* The width-W bit pattern of an integer n, -2^31 <= n < 2^31 (a literal or
\* an `as i32` / `i32::from(u8)` conversion of a small value).
BitsOf(n, W) ==
    [i \in 0..(W - 1) |->
        IF i <= 30 THEN (n \div Pow2(i)) % 2 ELSE IF n < 0 THEN 1 ELSE 0]

IsZero(b, W) == \A i \in 0..(W - 1) : b[i] = 0

BitAnd(a, b, W) == [i \in 0..(W - 1) |-> IF a[i] = 1 /\ b[i] = 1 THEN 1 ELSE 0]
BitOr(a, b, W)  == [i \in 0..(W - 1) |-> IF a[i] = 1 \/ b[i] = 1 THEN 1 ELSE 0]

\* `>>` on a signed integer: the sign bit is shifted in.
Sar(b, k, W) == [i \in 0..(W - 1) |-> IF i + k <= W - 1 THEN b[i + k] ELSE b[W - 1]]
\* `<<`: zeros are shifted in, the bits shifted out are dropped.
Shl(b, k, W) == [i \in 0..(W - 1) |-> IF i >= k THEN b[i - k] ELSE 0]

\* $conversation_type::max_value(): 0 followed by W-1 ones.
MaxValue(W) == [i \in 0..(W - 1) |-> IF i = W - 1 THEN 0 ELSE 1]

\* `(n & 0b0111_1111) as u8`
Low7(b) == b[0] + 2 * b[1] + 4 * b[2] + 8 * b[3] + 16 * b[4] + 32 * b[5] + 64 * b[6]

\* The integer an i32 bit pattern denotes.
RECURSIVE UnsignedBelow(_, _)
UnsignedBelow(b, k) == IF k = 0 THEN 0 ELSE b[k - 1] * Pow2(k - 1) + UnsignedBelow(b, k - 1)
I32Value(b) ==
    IF b[31] = 1 THEN (UnsignedBelow(b, 31) - Pow2(30)) - Pow2(30) ELSE UnsignedBelow(b, 31)

(***************************************************************************)
(* var_impl!: From<$conversation_type> for $store_struct                   *)
(***************************************************************************)
\* `n >> 7` as a plain arithmetic shift: the mutant of ShiftGroup.
ShiftGroupArith(n, W) == Sar(n, 7, W)
\* `n = (n >> 7) & ($conversation_type::max_value() >> 6)`
ShiftGroup(n, W) == BitAnd(Sar(n, 7, W), Sar(MaxValue(W), 6, W), W)

RECURSIVE VarFromLoop(_, _, _, _, _)
VarFromLoop(n, ans, ptr, W, SIZE) ==
    LET n2   == ShiftGroup(n, W)
        tmp  == IF ~IsZero(n2, W) THEN Low7(n) + 128 ELSE Low7(n)
        ans2 == [ans EXCEPT ![ptr] = tmp]
    IN  IF IsZero(n2, W) \/ ptr + 1 >= SIZE
        THEN ans2
        ELSE VarFromLoop(n2, ans2, ptr + 1, W, SIZE)

\* The conversion with the continuation bit and the loop exit decided on the
\* value before the shift, so that a padding group follows the last one: the
\* mutant of VarFrom.
RECURSIVE VarFromPaddedLoop(_, _, _, _, _)
VarFromPaddedLoop(n, ans, ptr, W, SIZE) ==
    LET n2   == ShiftGroup(n, W)
        last == IsZero(n, W) \/ ptr + 1 >= SIZE
        ans2 == [ans EXCEPT ![ptr] = IF last THEN Low7(n) ELSE Low7(n) + 128]
    IN  IF last THEN ans2 ELSE VarFromPaddedLoop(n2, ans2, ptr + 1, W, SIZE)

VarFromPadded(n, W, SIZE) == VarFromPaddedLoop(n, [i \in 0..(SIZE - 1) |-> 0], 0, W, SIZE)

VarFrom(n, W, SIZE) == VarFromLoop(n, [i \in 0..(SIZE - 1) |-> 0], 0, W, SIZE)

VarInt_from(n)  == VarFrom(n, I32Bits, VarIntSize)
VarLong_from(n) == VarFrom(n, I64Bits, VarLongSize)

(***************************************************************************)
(* var_impl!: From<$store_struct> for $conversation_type                   *)
(* Indexing v.inner past its end panics.  `ans |= value << (7 * ptr)` is   *)
(* computed on bit vectors; the shift amount stays below W because         *)
(* ptr < SIZE and 7 * (SIZE - 1) < W for both instantiations.              *)
(***************************************************************************)
RECURSIVE ConvFromLoop(_, _, _, _, _)
ConvFromLoop(v, ans, ptr, W, SIZE) ==
    IF ptr >= SIZE
    THEN Panic("index out of bounds: inner")
    ELSE LET value == BitsOf(v[ptr] % 128, W)
             ans2  == BitOr(ans, Shl(value, 7 * ptr, W), W)
         IN  IF v[ptr] < 128 THEN Ok(ans2) ELSE ConvFromLoop(v, ans2, ptr + 1, W, SIZE)

ConvFrom(v, W, SIZE) == ConvFromLoop(v, BitsOf(0, W), 0, W, SIZE)

i32_from(v) == ConvFrom(v, I32Bits, VarIntSize)
i64_from(v) == ConvFrom(v, I64Bits, VarLongSize)

(***************************************************************************)
(* VarInt::size                                                            *)
(***************************************************************************)
RECURSIVE sizeFrom(_, _)
sizeFrom(inner, i) ==
    IF i >= VarIntSize THEN VarIntSize
    ELSE IF inner[i] < 128 THEN i + 1 ELSE sizeFrom(inner, i + 1)

size(inner) == sizeFrom(inner, 0)

(***************************************************************************)
(* var_impl!: $write_func (write_var_int / write_var_long) on a Vec<u8>,   *)
(* whose write_all never fails.                                            *)
(***************************************************************************)
RECURSIVE WriteVarLoop(_, _, _, _)
WriteVarLoop(inner, buf, ptr, SIZE) ==
    IF inner[ptr] = 0 THEN <<buf, ptr>>
    ELSE IF ptr + 1 >= SIZE THEN <<Append(buf, inner[ptr]), ptr + 1>>
    ELSE WriteVarLoop(inner, Append(buf, inner[ptr]), ptr + 1, SIZE)

WriteVar(inner, SIZE) ==
    LET r == WriteVarLoop(inner, <<>>, 0, SIZE)
    IN  IF r[2] = 0 THEN Append(r[1], 0) ELSE r[1]

write_var_int(inner)  == WriteVar(inner, VarIntSize)
write_var_long(inner) == WriteVar(inner, VarLongSize)

(***************************************************************************)
(* ClientHandshake::to_bytes::write_varint_bytes: what it appends to buf.  *)
(***************************************************************************)
RECURSIVE WriteVarintBytesFrom(_, _, _)
WriteVarintBytesFrom(inner, i, n) ==
    IF i >= n THEN <<>>
    ELSE IF inner[i] < 128 THEN <<inner[i]>>
    ELSE <<inner[i]>> \o WriteVarintBytesFrom(inner, i + 1, n)

write_varint_bytes(inner) == WriteVarintBytesFrom(inner, 0, VarIntSize)

(***************************************************************************)
(* var_impl!: $read_func (read_var_int / read_var_long) on an in-memory    *)
(* io::Read (a cursor over `stream`, `pos` bytes already consumed).        *)
(* read_exact comes first in the loop body, the length test after it.      *)
(***************************************************************************)
RECURSIVE ReadVarLoop(_, _, _, _, _)
ReadVarLoop(stream, pos, ans, ptr, SIZE) ==
    IF pos >= Len(stream)
    THEN Err("UnexpectedEof")
    ELSE LET byte == stream[pos + 1]
         IN  IF ptr >= SIZE
             THEN Err("InvalidData")
             ELSE LET ans2 == [ans EXCEPT ![ptr] = byte]
                  IN  IF byte < 128
                      THEN [kind |-> "ok", val |-> ans2, n |-> pos + 1]
                      ELSE ReadVarLoop(stream, pos + 1, ans2, ptr + 1, SIZE)

ReadVar(stream, SIZE) == ReadVarLoop(stream, 0, [i \in 0..(SIZE - 1) |-> 0], 0, SIZE)

read_var_int(stream)  == ReadVar(stream, VarIntSize)
read_var_long(stream) == ReadVar(stream, VarLongSize)

(***************************************************************************)
(* ServerQueryResponse::from::read_varint: the slice reader.  `data[i]`    *)
(* panics past the end of the slice, `val.inner[i]` past the fifth byte.   *)
(***************************************************************************)
RECURSIVE read_varint_loop(_, _, _)
read_varint_loop(data, val, i) ==
    IF i >= Len(data)
    THEN Panic("index out of bounds: data")
    ELSE LET byte == data[i + 1]
         IN  IF i >= VarIntSize
             THEN Panic("index out of bounds: val.inner")
             ELSE LET val2 == [val EXCEPT ![i] = byte]
                  IN  IF byte < 128
                      THEN [kind |-> "ok", val |-> val2, n |-> i + 1]
                      ELSE read_varint_loop(data, val2, i + 1)

read_varint(data) == read_varint_loop(data, [i \in 0..(VarIntSize - 1) |-> 0], 0)

\* `&bytes[cursor..]`
SliceFrom(bytes, cursor) == SubSeq(bytes, cursor + 1, Len(bytes))

(***************************************************************************)
(* String::from_utf8_lossy(json_bytes).to_string(): the UTF-8 content of   *)
(* the resulting String.  Well-formed sequences are kept; every maximal    *)
(* ill-formed prefix (the lead byte and the continuation bytes accepted    *)
(* before the first wrong one) becomes one U+FFFD, bytes EF BF BD.         *)
(***************************************************************************)
Replacement == <<239, 191, 189>>

\* safe_get: 0 past the end.
SafeGet(b, i) == IF i <= Len(b) THEN b[i] ELSE 0
IsCont(x) == x >= 128 /\ x <= 191

Utf8CharWidth(x) ==
    IF x >= 194 /\ x <= 223 THEN 2
    ELSE IF x >= 224 /\ x <= 239 THEN 3
    ELSE IF x >= 240 /\ x <= 244 THEN 4
    ELSE 0

\* Whether `second` may follow lead byte `first` of a 3- or 4-byte sequence.
SecondOk(first, second) ==
    \/ first = 224 /\ second >= 160 /\ second <= 191
    \/ first >= 225 /\ first <= 236 /\ IsCont(second)
    \/ first = 237 /\ second >= 128 /\ second <= 159
    \/ first >= 238 /\ first <= 239 /\ IsCont(second)
    \/ first = 240 /\ second >= 144 /\ second <= 191
    \/ first >= 241 /\ first <= 243 /\ IsCont(second)
    \/ first = 244 /\ second >= 128 /\ second <= 143

\* For the sequence starting at index i (1-based): <<valid, bytes consumed>>.
Utf8Step(b, i) ==
    LET first == b[i]
        w     == Utf8CharWidth(first)
    IN  IF first < 128 THEN <<TRUE, 1>>
        ELSE IF w = 2 THEN
            IF IsCont(SafeGet(b, i + 1)) THEN <<TRUE, 2>> ELSE <<FALSE, 1>>
        ELSE IF w = 3 THEN
            IF ~SecondOk(first, SafeGet(b, i + 1)) THEN <<FALSE, 1>>
            ELSE IF ~IsCont(SafeGet(b, i + 2)) THEN <<FALSE, 2>>
            ELSE <<TRUE, 3>>
        ELSE IF w = 4 THEN
            IF ~SecondOk(first, SafeGet(b, i + 1)) THEN <<FALSE, 1>>
            ELSE IF ~IsCont(SafeGet(b, i + 2)) THEN <<FALSE, 2>>
            ELSE IF ~IsCont(SafeGet(b, i + 3)) THEN <<FALSE, 3>>
            ELSE <<TRUE, 4>>
        ELSE <<FALSE, 1>>

RECURSIVE Utf8LossyFrom(_, _)
Utf8LossyFrom(b, i) ==
    IF i > Len(b) THEN <<>>
    ELSE LET st == Utf8Step(b, i)
         IN  (IF st[1] THEN SubSeq(b, i, i + st[2] - 1) ELSE Replacement)
                 \o Utf8LossyFrom(b, i + st[2])

from_utf8_lossy(b) == Utf8LossyFrom(b, 1)

(***************************************************************************)
(* ServerQueryResponse::from.  The function returns the struct, not a      *)
(* Result: its only outcomes are the struct and a panic.                   *)
(*                                                                         *)
(* `i32::from(json_len) as usize` sign-extends a negative length to a      *)
(* value of at least 2^63; `cursor + that` then either overflows (a panic  *)
(* with overflow checks, a wrapped end below cursor without them) or       *)
(* exceeds the slice: the range index panics in every build.               *)
(***************************************************************************)
\* `&bytes[cursor..cursor + n]` for the decoded length n.
JsonSlice(bytes, cursor, n) ==
    IF n < 0 THEN Panic("slice index out of range: negative length")
    ELSE IF n > Len(bytes) - cursor THEN Panic("slice index out of range")
    ELSE Ok(SubSeq(bytes, cursor + 1, cursor + n))

ServerQueryResponse_from(bytes) ==
    LET r1 == read_varint(SliceFrom(bytes, 0))
    IN  IF r1.kind # "ok" THEN r1 ELSE
    LET c1 == r1.n
        r2 == read_varint(SliceFrom(bytes, c1))
    IN  IF r2.kind # "ok" THEN r2 ELSE
    LET c2 == c1 + r2.n
        r3 == read_varint(SliceFrom(bytes, c2))
    IN  IF r3.kind # "ok" THEN r3 ELSE
    LET c3 == c2 + r3.n
        jl == i32_from(r3.val)
    IN  IF jl.kind # "ok" THEN jl ELSE
    LET js == JsonSlice(bytes, c3, I32Value(jl.val))
    IN  IF js.kind # "ok" THEN js ELSE
        [kind |-> "ok", len |-> r1.val, packet_id |-> r2.val, json_len |-> r3.val,
         json |-> from_utf8_lossy(js.val)]

(***************************************************************************)
(* ClientHandshake.  A value is a record of the struct's six fields; the   *)
(* VarInt fields hold the inner arrays, server_addr the bytes of the       *)
(* String (String::len is its byte length), server_port a u16.             *)
(***************************************************************************)
\* `x as i32` of a usize that fits.
AsI32(x) == BitsOf(x, I32Bits)

\* len_val leaving out the two port bytes: the mutant of len_val.
len_val_no_port(packet_id, protocol_version, server_addr, next_state) ==
    size(packet_id) + size(protocol_version) + size(VarInt_from(AsI32(Len(server_addr))))
        + Len(server_addr) + size(next_state)

len_val(packet_id, protocol_version, server_addr, next_state) ==
    size(packet_id) + size(protocol_version) + size(VarInt_from(AsI32(Len(server_addr))))
        + Len(server_addr) + 2 + size(next_state)

ClientHandshake_new(server_addr, server_port) ==
    LET packet_id        == VarInt_from(AsI32(0))
        protocol_version == VarInt_from(AsI32(ProtocolVersion))
        next_state       == VarInt_from(AsI32(NextStateStatus))
    IN  [kind             |-> "some",
         len              |-> VarInt_from(AsI32(
                                  len_val(packet_id, protocol_version, server_addr, next_state))),
         packet_id        |-> packet_id,
         protocol_version |-> protocol_version,
         server_addr      |-> server_addr,
         server_port      |-> server_port,
         next_state       |-> next_state]

\* The port with the low byte first: the mutant of PortBytes.
PortBytesLittleEndian(server_port) == <<server_port % 256, (server_port \div 256) % 256>>
\* `buf.push((self.server_port >> 8) as u8); buf.push(self.server_port as u8);`
PortBytes(server_port) == <<(server_port \div 256) % 256, server_port % 256>>

ClientHandshake_to_bytes(self) ==
    write_varint_bytes(self.len)
        \o write_varint_bytes(self.packet_id)
        \o write_varint_bytes(self.protocol_version)
        \o write_varint_bytes(VarInt_from(AsI32(Len(self.server_addr))))
        \o self.server_addr
        \o PortBytes(self.server_port)
        \o write_varint_bytes(self.next_state)

\* StatusQuery::to_bytes
StatusQuery_to_bytes == <<1, 0>>

(***************************************************************************)
(* Bounds of the model and the inputs drawn within them.                   *)
(***************************************************************************)
MaxSmall    == 300   \* codec inputs: every integer in -MaxSmall..MaxSmall
MaxDeclared == 5     \* responses: envelope lengths 0..MaxDeclared are declared
MaxBody     == 2     \* responses: at most MaxBody bytes follow the JSON length
MaxCont     == 11    \* readers: runs of up to MaxCont continuation bytes
MaxAddrLen  == 129   \* handshake: server addresses of up to MaxAddrLen bytes

\* The bit pattern with bit k equal to b, the bits below it a, those above c:
\* 0, -1, the extreme values, and every power of two with its neighbours.
Pattern(k, a, b, c, W) ==
    [i \in 0..(W - 1) |-> IF i < k THEN a ELSE IF i = k THEN b ELSE c]

CodecInputs(W) ==
    {Pattern(k, a, b, c, W) : k \in 0..(W - 1), a \in {0, 1}, b \in {0, 1}, c \in {0, 1}}
        \cup {BitsOf(n, W) : n \in (0 - MaxSmall)..MaxSmall}

\* k bytes with the continuation bit set and no data bits.
Cont(k) == [i \in 1..k |-> 128]

\* The wire form of the VarInt of a small integer, as the code writes it.
Enc(n) == write_varint_bytes(VarInt_from(AsI32(n)))

RECURSIVE SeqsUpTo(_, _)
SeqsUpTo(S, n) ==
    IF n = 0 THEN {<<>>}
    ELSE LET shorter == SeqsUpTo(S, n - 1)
         IN  shorter \cup {Append(q, x) : q \in shorter, x \in S}

Prefixes(q) == {SubSeq(q, 1, k) : k \in 0..Len(q)}

\* '{', and the two bytes of a two-byte UTF-8 character.
BodyBytes == {123, 195, 169}
Bodies    == SeqsUpTo(BodyBytes, MaxBody)

LenFields     == {Enc(n) : n \in 0..MaxDeclared} \cup {Cont(VarIntSize)}
IdFields      == {Enc(0), Enc(1), Cont(VarIntSize)}
JsonLenFields == {Enc(n) : n \in (0 - 1)..(MaxBody + 1)} \cup {Cont(VarIntSize)}

\* What a server may put in the buffer: any fields, any body, cut anywhere;
\* and bare runs of continuation bytes with or without a terminator.
ParseInputs ==
    UNION {Prefixes(l \o p \o j \o b) :
               l \in LenFields, p \in IdFields, j \in JsonLenFields, b \in Bodies}
        \cup {Cont(k) \o t : k \in 0..MaxCont, t \in {<<>>, <<1>>}}

\* What a server may send in answer to a status query.
ReadInputs ==
    {Enc(n) \o Enc(0) \o Enc(j) \o b :
         n \in 0..MaxDeclared, j \in 0..(MaxBody + 1), b \in Bodies}

Addr127 == <<49, 50, 55, 46, 48, 46, 48, 46, 49>>   \* "127.0.0.1"
Fill(c, n) == [i \in 1..n |-> c]
AddrLens == {0, 1} \cup ((MaxAddrLen - 9)..MaxAddrLen)
Addrs    == {Addr127} \cup {Fill(c, n) : c \in {97, 49}, n \in AddrLens}
Ports    == {0, 255, 256, 25565, 65535}

\* The values the fields of an existing handshake are assigned.
MutAddrs   == {<<>>, <<97>>, Addr127}
MutVarInts == {VarInt_from(AsI32(n)) : n \in {0, 2, ProtocolVersion}}
MutPorts   == {80, 25565}

(***************************************************************************)
(* Initial states.  Each specification starts one part of the program and  *)
(* leaves the others at rest.                                              *)
(***************************************************************************)
CodecAtRest ==
    /\ cW = I32Bits /\ cval = BitsOf(0, I32Bits)
    /\ cvar = None /\ cback = None /\ csize = 0 /\ cout = None
ParseAtRest == input = <<>> /\ pres = [op |-> "none"]
HsAtRest    == hs = None /\ hsout = None
ReadAtRest  == sent = <<>> /\ wire = <<>> /\ eof = FALSE /\ rpc = "idle" /\ resp = None
ConnAtRest  ==
    /\ resolve = FALSE /\ conns = <<>> /\ call = [op |-> "none"]
    /\ calls = <<>> /\ ret = [of |-> "none", res |-> None]

InitCodec ==
    /\ cW \in {I32Bits, I64Bits}
    /\ cval \in CodecInputs(cW)
    /\ cvar = None /\ cback = None /\ csize = 0 /\ cout = None
    /\ ParseAtRest /\ HsAtRest /\ ReadAtRest /\ ConnAtRest

InitParse ==
    /\ input \in ParseInputs
    /\ pres = [op |-> "none"]
    /\ CodecAtRest /\ HsAtRest /\ ReadAtRest /\ ConnAtRest

InitHs == CodecAtRest /\ ParseAtRest /\ HsAtRest /\ ReadAtRest /\ ConnAtRest

InitRead ==
    /\ sent \in ReadInputs
    /\ wire = sent
    /\ eof \in BOOLEAN
    /\ rpc = "idle" /\ resp = None
    /\ CodecAtRest /\ ParseAtRest /\ HsAtRest /\ ConnAtRest

(***************************************************************************)
(* Codec operations.                                                       *)
(***************************************************************************)
\* VarInt::from(v: i32)
IntoVarInt ==
    /\ cW = I32Bits /\ cvar.kind = "none"
    /\ cvar' = Ok(VarInt_from(cval))
    /\ UNCHANGED <<cW, cval, cback, csize, cout, parseVars, hsVars, readVars, connVars>>

\* VarLong::from(v: i64)
IntoVarLong ==
    /\ cW = I64Bits /\ cvar.kind = "none"
    /\ cvar' = Ok(VarLong_from(cval))
    /\ UNCHANGED <<cW, cval, cback, csize, cout, parseVars, hsVars, readVars, connVars>>

\* i32::from(varint)
FromVarInt ==
    /\ cW = I32Bits /\ cvar.kind = "ok" /\ cback.kind = "none"
    /\ cback' = i32_from(cvar.val)
    /\ UNCHANGED <<cW, cval, cvar, csize, cout, parseVars, hsVars, readVars, connVars>>

\* i64::from(varlong)
FromVarLong ==
    /\ cW = I64Bits /\ cvar.kind = "ok" /\ cback.kind = "none"
    /\ cback' = i64_from(cvar.val)
    /\ UNCHANGED <<cW, cval, cvar, csize, cout, parseVars, hsVars, readVars, connVars>>

\* varint.size()
CallSize ==
    /\ cW = I32Bits /\ cvar.kind = "ok" /\ csize = 0
    /\ csize' = size(cvar.val)
    /\ UNCHANGED <<cW, cval, cvar, cback, cout, parseVars, hsVars, readVars, connVars>>

\* vec.write_var_int(varint)
WriteVarInt ==
    /\ cW = I32Bits /\ cvar.kind = "ok" /\ cout.kind = "none"
    /\ cout' = [kind |-> "ok", val |-> write_var_int(cvar.val), by |-> "write_var_int"]
    /\ UNCHANGED <<cW, cval, cvar, cback, csize, parseVars, hsVars, readVars, connVars>>

\* vec.write_var_long(varlong)
WriteVarLong ==
    /\ cW = I64Bits /\ cvar.kind = "ok" /\ cout.kind = "none"
    /\ cout' = [kind |-> "ok", val |-> write_var_long(cvar.val), by |-> "write_var_long"]
    /\ UNCHANGED <<cW, cval, cvar, cback, csize, parseVars, hsVars, readVars, connVars>>

\* write_varint_bytes(&mut buf, &varint.inner) on an empty buf
WriteVarintBytes ==
    /\ cW = I32Bits /\ cvar.kind = "ok" /\ cout.kind = "none"
    /\ cout' = [kind |-> "ok", val |-> write_varint_bytes(cvar.val),
                by |-> "write_varint_bytes"]
    /\ UNCHANGED <<cW, cval, cvar, cback, csize, parseVars, hsVars, readVars, connVars>>

NextCodec ==
    \/ IntoVarInt \/ IntoVarLong \/ FromVarInt \/ FromVarLong
    \/ CallSize \/ WriteVarInt \/ WriteVarLong \/ WriteVarintBytes

SpecCodec == InitCodec /\ [][NextCodec]_vars

(***************************************************************************)
(* Reader operations on a buffer: one reader runs on the input.            *)
(***************************************************************************)
\* ServerQueryResponse::from(&input)
ParseResponse ==
    /\ pres.op = "none"
    /\ pres' = [op |-> "from", out |-> ServerQueryResponse_from(input)]
    /\ UNCHANGED <<input, codecVars, hsVars, readVars, connVars>>

\* read_varint(&input)
ReadVarintSlice ==
    /\ pres.op = "none"
    /\ pres' = [op |-> "read_varint", out |-> read_varint(input)]
    /\ UNCHANGED <<input, codecVars, hsVars, readVars, connVars>>

\* Cursor::new(input).read_var_int()
ReadVarIntStream ==
    /\ pres.op = "none"
    /\ pres' = [op |-> "read_var_int", out |-> read_var_int(input)]
    /\ UNCHANGED <<input, codecVars, hsVars, readVars, connVars>>

\* Cursor::new(input).read_var_long()
ReadVarLongStream ==
    /\ pres.op = "none"
    /\ pres' = [op |-> "read_var_long", out |-> read_var_long(input)]
    /\ UNCHANGED <<input, codecVars, hsVars, readVars, connVars>>

NextParse == ParseResponse \/ ReadVarintSlice \/ ReadVarIntStream \/ ReadVarLongStream

SpecParse == InitParse /\ [][NextParse]_vars

(***************************************************************************)
(* Handshake operations.                                                   *)
(***************************************************************************)
\* ClientHandshake::new(addr, port)
HsNew ==
    /\ hs.kind = "none"
    /\ \E a \in Addrs, p \in Ports : hs' = ClientHandshake_new(a, p)
    /\ UNCHANGED <<hsout, codecVars, parseVars, readVars, connVars>>

\* ClientHandshake::new(addr, port), with the inputs of the mutable scenario
HsNewSmall ==
    /\ hs.kind = "none"
    /\ \E a \in MutAddrs, p \in MutPorts : hs' = ClientHandshake_new(a, p)
    /\ UNCHANGED <<hsout, codecVars, parseVars, readVars, connVars>>

\* handshake.to_bytes()
HsToBytes ==
    /\ hs.kind = "some"
    /\ hsout' = Ok(ClientHandshake_to_bytes(hs))
    /\ UNCHANGED <<hs, codecVars, parseVars, readVars, connVars>>

\* handshake.server_addr = a
SetServerAddr ==
    /\ hs.kind = "some"
    /\ \E a \in MutAddrs : hs' = [hs EXCEPT !.server_addr = a]
    /\ UNCHANGED <<hsout, codecVars, parseVars, readVars, connVars>>

\* handshake.protocol_version = v
SetProtocolVersion ==
    /\ hs.kind = "some"
    /\ \E v \in MutVarInts : hs' = [hs EXCEPT !.protocol_version = v]
    /\ UNCHANGED <<hsout, codecVars, parseVars, readVars, connVars>>

\* handshake.next_state = v
SetNextState ==
    /\ hs.kind = "some"
    /\ \E n \in {1, 2} : hs' = [hs EXCEPT !.next_state = VarInt_from(AsI32(n))]
    /\ UNCHANGED <<hsout, codecVars, parseVars, readVars, connVars>>

\* handshake.packet_id = v
SetPacketId ==
    /\ hs.kind = "some"
    /\ \E n \in {0, 128} : hs' = [hs EXCEPT !.packet_id = VarInt_from(AsI32(n))]
    /\ UNCHANGED <<hsout, codecVars, parseVars, readVars, connVars>>

\* handshake.server_port = p
SetServerPort ==
    /\ hs.kind = "some"
    /\ \E p \in MutPorts : hs' = [hs EXCEPT !.server_port = p]
    /\ UNCHANGED <<hsout, codecVars, parseVars, readVars, connVars>>

NextHs == HsNew \/ HsToBytes

SpecHs == InitHs /\ [][NextHs]_vars

NextHsMut ==
    \/ HsNewSmall \/ HsToBytes
    \/ SetServerAddr \/ SetProtocolVersion \/ SetNextState \/ SetPacketId \/ SetServerPort

SpecHsMut == InitHs /\ [][NextHsMut]_vars

(***************************************************************************)
(* Connection::__read_status_packet on a connected stream: one read into   *)
(* the 10,000 byte buffer, then ServerQueryResponse::from on what it got.  *)
(* A read returns at least one byte while bytes are pending, at most the   *)
(* buffer's length, and 0 only at end of stream; with nothing pending and  *)
(* the stream open it does not return.                                     *)
(***************************************************************************)
ReadStatusPacket ==
    /\ rpc = "idle"
    /\ \E n \in 0..Min(Len(wire), ReadBufLen) :
          /\ IF Len(wire) = 0 THEN eof ELSE n >= 1
          /\ resp' = ServerQueryResponse_from(SubSeq(wire, 1, n))
          /\ wire' = SubSeq(wire, n + 1, Len(wire))
    /\ rpc' = "done"
    /\ UNCHANGED <<sent, eof, codecVars, parseVars, hsVars, connVars>>

NextRead == ReadStatusPacket

SpecRead == InitRead /\ [][NextRead]_vars

(***************************************************************************)
(* Connection.  A value is a record of the struct's five fields and of     *)
(* `live`: whether the value still exists (timeout and proxy_socks5 take   *)
(* self by value and drop it on their error path).  addr and proxy_addr    *)
(* are <<host bytes, port>>.  An Option is None or Some(v).  The TcpStream *)
(* a connected value owns is modelled with its peer: `out` the bytes       *)
(* written to it, `wlog` the write_all calls made on it as                 *)
(* <<packet, bytes written>>, `sent` all the bytes the server sends,       *)
(* `inbox` those not yet read, `eof` whether the server closes after them, *)
(* `accepts` whether the peer still takes writes, `reads` the number of    *)
(* read calls made.                                                        *)
(***************************************************************************)
DefaultConnectTimeout   == 8000
DefaultHandshakeTimeout == 9000

Some(v) == [kind |-> "some", val |-> v]
unwrap_or(opt, d) == IF opt.kind = "some" THEN opt.val ELSE d

\* An error as the caller sees it: what failed, and in which step of the call.
ErrAt(e, pc) == [kind |-> "err", err |-> e, at |-> pc]

\* A freshly connected TcpStream and what its server will do.
TcpStream(sent_, eof_) ==
    [kind |-> "some", out |-> <<>>, wlog |-> <<>>, sent |-> sent_, inbox |-> sent_,
     eof |-> eof_, accepts |-> TRUE, reads |-> 0]

\* Connection::new
Connection_new(addr) ==
    [live |-> TRUE, stream |-> None, timeout |-> None, is_initialized |-> TRUE,
     proxy_addr |-> None, addr |-> addr]

(***************************************************************************)
(* is_domain: `addr.parse::<IpAddr>().is_err()`.  The IPv4 form is four    *)
(* decimal numbers of one to three digits, each at most 255 and without a  *)
(* leading zero, separated by dots.  The hosts of this model hold no ':',  *)
(* so the IPv6 form never applies.                                         *)
(***************************************************************************)
IsDigit(x) == x >= 48 /\ x <= 57

\* The number written in q[a..b] (1-based, inclusive), or -1 if it is none.
Octet(q, a, b) ==
    IF b < a \/ b - a > 2 \/ \E i \in a..b : ~IsDigit(q[i]) THEN 0 - 1
    ELSE IF b > a /\ q[a] = 48 THEN 0 - 1
    ELSE LET v == IF b = a THEN q[a] - 48
                  ELSE IF b = a + 1 THEN (q[a] - 48) * 10 + (q[b] - 48)
                  ELSE (q[a] - 48) * 100 + (q[a + 1] - 48) * 10 + (q[b] - 48)
         IN  IF v <= 255 THEN v ELSE 0 - 1

IsIpv4(q) ==
    LET dots == {i \in 1..Len(q) : q[i] = 46}
    IN  /\ Cardinality(dots) = 3
        /\ \E d1 \in dots, d2 \in dots, d3 \in dots :
              /\ d1 < d2 /\ d2 < d3
              /\ Octet(q, 1, d1 - 1) >= 0
              /\ Octet(q, d1 + 1, d2 - 1) >= 0
              /\ Octet(q, d2 + 1, d3 - 1) >= 0
              /\ Octet(q, d3 + 1, Len(q)) >= 0

is_domain(host) == ~IsIpv4(host)

(***************************************************************************)
(* Connection::connect.  `net` is what the network does: "ok", "elapsed"   *)
(* (the connect timeout fires), "io" (the connect or the proxy fails),     *)
(* "dns_err" and "dns_empty" (lookup_host fails or yields no address; only *)
(* the "resolve" build without a proxy looks a host up).  The result is    *)
(* the new Connection or an error; self is only read.                      *)
(***************************************************************************)
Connection_connect(self, resolve_, net, stream) ==
    LET connected == [live |-> TRUE, stream |-> stream, is_initialized |-> TRUE,
                      timeout |-> self.timeout, proxy_addr |-> self.proxy_addr,
                      addr |-> self.addr]
        after == unwrap_or(self.timeout, DefaultConnectTimeout)
        dial == IF net = "elapsed" THEN [kind |-> "err", err |-> "Elapsed", at |-> "connect",
                                         after |-> after]
                ELSE IF net = "io" THEN ErrAt("Io", "connect")
                ELSE Ok(connected)
    IN  IF ~resolve_
        THEN IF is_domain(self.addr[1]) THEN ErrAt("ResolveDisabled", "connect") ELSE dial
        ELSE IF self.proxy_addr.kind = "some" THEN dial
        ELSE IF net = "dns_err" THEN ErrAt("Io", "connect")
        ELSE IF net = "dns_empty" THEN ErrAt("CouldNotResolve", "connect")
        ELSE IF dial.kind = "ok"
             THEN Ok([connected EXCEPT !.proxy_addr = None])
             ELSE dial

\* The receiver of connect with the stream stored into it: the mutant of
\* ConnectReceiver.
ConnectReceiverInPlace(self, stream) == [self EXCEPT !.stream = stream]
\* The receiver after connect(&mut self): no field of self is assigned.
ConnectReceiver(self, stream) == self

\* Connection::timeout(self, timeout)
Connection_timeout(self, t) ==
    IF ~self.is_initialized THEN ErrAt("NotInitialized", "timeout")
    ELSE Ok([self EXCEPT !.timeout = Some(t)])

\* Connection::proxy_socks5(self, proxy_addr)
Connection_proxy_socks5(self, proxy) ==
    IF ~self.is_initialized THEN ErrAt("NotInitialized", "proxy_socks5")
    ELSE Ok([self EXCEPT !.proxy_addr = Some(proxy)])

(***************************************************************************)
(* The steps of send_handshake, get_status and ping.                       *)
(***************************************************************************)
\* A call on a Connection without a stream returning success: the mutant of
\* NotConnected.
NotConnectedIgnored(pc) == Ok(<<>>)
\* `None => return Err(anyhow!("TCPstream is None. Maybe you forgot to .connect() ?"))`
NotConnected(pc) == ErrAt("NotConnected", pc)

\* write_all that completes.
write_all(stream, bytes, pkt) ==
    [stream EXCEPT !.out = @ \o bytes, !.wlog = Append(@, <<pkt, Len(bytes)>>)]
\* write_all that is cut off (an error, or the timeout dropping it) after k
\* bytes, k < Len(bytes).
write_cut(stream, bytes, pkt, k) ==
    [stream EXCEPT !.out = @ \o SubSeq(bytes, 1, k), !.wlog = Append(@, <<pkt, k>>)]

\* The handshake bytes send_handshake builds from self.addr.
HandshakeBytes(self) == ClientHandshake_to_bytes(ClientHandshake_new(self.addr[1], self.addr[2]))

\* Where ping goes after a failed send_handshake if the error is dropped:
\* the mutant of AfterHandshake.
AfterHandshakeUnchecked(op, r) == IF op = "ping" THEN "query" ELSE "return"
\* `self.send_handshake().await?` in ping, and send_handshake's own return.
AfterHandshake(op, r) ==
    IF r.kind = "err" THEN "return" ELSE IF op = "ping" THEN "query" ELSE "return"

\* mc_text::ServerStatus needs the keys version, description and players.
Contains(q, w) == \E i \in 1..(Len(q) - Len(w) + 1) : SubSeq(q, i, i + Len(w) - 1) = w
MayDeserialize(json) ==
    /\ Len(json) >= 2 /\ json[1] = 123 /\ json[Len(json)] = 125
    /\ Contains(json, <<34, 118, 101, 114, 115, 105, 111, 110, 34>>)
    /\ Contains(json, <<34, 100, 101, 115, 99, 114, 105, 112, 116, 105, 111, 110, 34>>)
    /\ Contains(json, <<34, 112, 108, 97, 121, 101, 114, 115, 34>>)

(***************************************************************************)
(* Bounds and inputs of the connection scenarios.                          *)
(***************************************************************************)
MaxConns == 2    \* Connection values per scenario
MaxCalls == 2    \* send_handshake / get_status / ping calls per scenario

StatusDoc ==
    <<123, 34, 118, 101, 114, 115, 105, 111, 110, 34, 58, 123, 34, 110, 97, 109,
    101, 34, 58, 34, 120, 34, 44, 34, 112, 114, 111, 116, 111, 99, 111, 108, 34, 58,
    49, 125, 44, 34, 100, 101, 115, 99, 114, 105, 112, 116, 105, 111, 110, 34, 58,
    34, 120, 34, 44, 34, 112, 108, 97, 121, 101, 114, 115, 34, 58, 123, 34, 109, 97,
    120, 34, 58, 49, 44, 34, 111, 110, 108, 105, 110, 101, 34, 58, 48, 125, 125>>

ConnAddrs     == {<<Addr127, 25565>>, <<<<97>>, 25565>>}
ConnProxies   == {<<Addr127, 1080>>}
ConnTimeouts  == {5000}
\* What a server does once connected: <<the bytes it sends, whether it then
\* closes>>.  The first stays silent with the connection open.
ConnServers ==
    {<<<<>>, FALSE>>, <<<<>>, TRUE>>, <<Enc(2) \o Enc(0) \o Enc(0), FALSE>>,
     <<Enc(Len(StatusDoc) + 2) \o Enc(0) \o Enc(Len(StatusDoc)) \o StatusDoc, FALSE>>}
\* How many bytes one read may return of an inbox that holds some.
ReadSizes(inbox) == {1, Len(inbox)}
\* How many bytes of a write reach the peer before it is cut off.
Cuts(bytes) == {0, Len(bytes) - 1}

InitConn ==
    /\ resolve \in BOOLEAN
    /\ conns = <<>> /\ call = [op |-> "none"] /\ calls = <<>>
    /\ ret = [of |-> "none", res |-> None]
    /\ CodecAtRest /\ ParseAtRest /\ HsAtRest /\ ReadAtRest

Live == {i \in 1..Len(conns) : conns[i].live}
Idle == call.op = "none"
Cur  == conns[call.conn]
Returns(r) == ret' = [of |-> call.op, res |-> r] /\ call' = [op |-> "none"]
OtherVars == <<codecVars, parseVars, hsVars, readVars, resolve>>

(***************************************************************************)
(* Connection operations.                                                  *)
(***************************************************************************)
\* Connection::new(addr)
ConnNew ==
    /\ Idle /\ Len(conns) < MaxConns
    /\ \E a \in ConnAddrs : conns' = Append(conns, Connection_new(a))
    /\ UNCHANGED <<call, calls, ret, OtherVars>>

\* conn.timeout(t)
ConnTimeout ==
    /\ Idle
    /\ \E i \in Live, t \in ConnTimeouts :
          LET r == Connection_timeout(conns[i], t)
          IN  /\ conns' = [conns EXCEPT ![i] = IF r.kind = "ok" THEN r.val
                                               ELSE [@ EXCEPT !.live = FALSE]]
              /\ ret' = IF r.kind = "ok" THEN ret ELSE [of |-> "timeout", res |-> r]
    /\ UNCHANGED <<call, calls, OtherVars>>

\* conn.proxy_socks5(proxy)
ConnProxy ==
    /\ Idle
    /\ \E i \in Live, p \in ConnProxies :
          LET r == Connection_proxy_socks5(conns[i], p)
          IN  /\ conns' = [conns EXCEPT ![i] = IF r.kind = "ok" THEN r.val
                                               ELSE [@ EXCEPT !.live = FALSE]]
              /\ ret' = IF r.kind = "ok" THEN ret ELSE [of |-> "proxy_socks5", res |-> r]
    /\ UNCHANGED <<call, calls, OtherVars>>

\* conn.connect(): the returned Connection is kept beside the receiver.
Connect ==
    /\ Idle /\ Len(conns) < MaxConns
    /\ \E i \in Live, net \in {"ok", "elapsed", "io", "dns_err", "dns_empty"},
          srv \in ConnServers :
          LET res  == Connection_connect(conns[i], resolve, net, TcpStream(srv[1], srv[2]))
              self == [conns EXCEPT ![i] =
                          ConnectReceiver(conns[i], TcpStream(srv[1], srv[2]))]
          IN  /\ conns' = IF res.kind = "ok" THEN Append(self, res.val) ELSE self
              /\ ret' = [of |-> "connect", on |-> i,
                         res |-> IF res.kind = "ok" THEN Ok(Len(conns) + 1) ELSE res]
              /\ calls' = IF res.kind = "ok" THEN Append(calls, <<"connect", i>>) ELSE calls
    /\ UNCHANGED <<call, OtherVars>>

NCalls == Cardinality({k \in 1..Len(calls) : calls[k][1] # "connect"})

\* conn.send_handshake() is called
StartSendHandshake ==
    /\ Idle /\ NCalls < MaxCalls
    /\ \E i \in Live :
          /\ call' = [op |-> "send_handshake", conn |-> i, pc |-> "handshake"]
          /\ calls' = Append(calls, <<"send_handshake", i>>)
    /\ UNCHANGED <<conns, ret, OtherVars>>

\* conn.get_status() is called
StartGetStatus ==
    /\ Idle /\ NCalls < MaxCalls
    /\ \E i \in Live :
          /\ call' = [op |-> "get_status", conn |-> i, pc |-> "query"]
          /\ calls' = Append(calls, <<"get_status", i>>)
    /\ UNCHANGED <<conns, ret, OtherVars>>

\* conn.ping() is called
StartPing ==
    /\ Idle /\ NCalls < MaxCalls
    /\ \E i \in Live :
          /\ call' = [op |-> "ping", conn |-> i, pc |-> "handshake"]
          /\ calls' = Append(calls, <<"ping", i>>)
    /\ UNCHANGED <<conns, ret, OtherVars>>

InCall(pc) == call.op \in {"send_handshake", "get_status", "ping"} /\ call.pc = pc

(***************************************************************************)
(* When a step of a call can be taken.  A write_all returns once the       *)
(* stream is found None or the peer takes the bytes; the handshake write   *)
(* alone is wrapped in timeout(..), so only there a timer ends a write the *)
(* peer does not take.  The read returns once the stream is found None,    *)
(* bytes have arrived, or the peer has closed.                             *)
(***************************************************************************)
WriteReady(pc) ==
    InCall(pc) /\ (IF Cur.stream.kind = "none" THEN TRUE ELSE Cur.stream.accepts)
HandshakeTimerPending ==
    InCall("handshake") /\ Cur.stream.kind = "some" /\ ~Cur.stream.accepts
ReadReady ==
    InCall("read") /\ (IF Cur.stream.kind = "none" THEN TRUE
                       ELSE Cur.stream.inbox # <<>> \/ Cur.stream.eof)
ParseReady == InCall("parse")
\* Some step of the running call can be taken: its I/O can complete or its
\* timer is pending.
CallStepReady ==
    \/ WriteReady("handshake") \/ HandshakeTimerPending
    \/ WriteReady("query") \/ ReadReady \/ ParseReady

\* send_handshake: the stream test, then write_all under the timeout,
\* completing.
HandshakeWrite ==
    /\ WriteReady("handshake")
    /\ IF Cur.stream.kind = "none"
       THEN LET r == NotConnected("handshake")
            IN  /\ conns' = conns
                /\ IF AfterHandshake(call.op, r) = "return" THEN Returns(r)
                   ELSE ret' = ret /\ call' = [call EXCEPT !.pc = "query"]
       ELSE /\ conns' = [conns EXCEPT ![call.conn].stream =
                             write_all(@, HandshakeBytes(Cur), "handshake")]
            /\ IF AfterHandshake(call.op, Ok(<<>>)) = "return" THEN Returns(Ok(<<>>))
               ELSE ret' = ret /\ call' = [call EXCEPT !.pc = "query"]
    /\ UNCHANGED <<calls, OtherVars>>

\* send_handshake: the timeout fires on a write the peer does not take.
HandshakeTimeout ==
    /\ HandshakeTimerPending
    /\ \E k \in Cuts(HandshakeBytes(Cur)) :
          conns' = [conns EXCEPT ![call.conn].stream =
                        write_cut(@, HandshakeBytes(Cur), "handshake", k)]
    /\ LET r == [kind |-> "err", err |-> "Elapsed", at |-> "handshake",
                 after |-> unwrap_or(Cur.timeout, DefaultHandshakeTimeout)]
       IN  IF AfterHandshake(call.op, r) = "return" THEN Returns(r)
           ELSE ret' = ret /\ call' = [call EXCEPT !.pc = "query"]
    /\ UNCHANGED <<calls, OtherVars>>

\* __send_query_packet: the stream test, then write_all with no timeout,
\* completing.
QueryWrite ==
    /\ WriteReady("query")
    /\ IF Cur.stream.kind = "none"
       THEN conns' = conns /\ Returns(NotConnected("query"))
       ELSE /\ conns' = [conns EXCEPT ![call.conn].stream =
                             write_all(@, StatusQuery_to_bytes, "query")]
            /\ ret' = ret /\ call' = [call EXCEPT !.pc = "read"]
    /\ UNCHANGED <<calls, OtherVars>>

\* __read_status_packet: the stream test, one read with no timeout, then
\* ServerQueryResponse::from on what arrived.  A panic ends the task.
ReadResponse ==
    /\ ReadReady
    /\ IF Cur.stream.kind = "none"
       THEN conns' = conns /\ Returns(NotConnected("read"))
       ELSE \E n \in {0} \cup ReadSizes(Cur.stream.inbox) :
               /\ n <= ReadBufLen
               /\ IF Len(Cur.stream.inbox) = 0 THEN Cur.stream.eof /\ n = 0 ELSE n >= 1
               /\ conns' = [conns EXCEPT ![call.conn].stream =
                                [@ EXCEPT !.inbox = SubSeq(@, n + 1, Len(@)),
                                          !.reads = @ + 1]]
               /\ LET r == ServerQueryResponse_from(SubSeq(Cur.stream.inbox, 1, n))
                  IN  IF r.kind = "ok"
                      THEN /\ ret' = ret
                           /\ call' = [op |-> call.op, conn |-> call.conn, pc |-> "parse",
                                       packet |-> r]
                      ELSE ret' = [of |-> call.op, res |-> r] /\ call' = [op |-> "panicked"]
    /\ UNCHANGED <<calls, OtherVars>>

\* parse_status: serde_json on the packet's json text.  Text that lacks what
\* ServerStatus requires is an error; on the rest the verdict is serde's.
ParseStatus ==
    /\ ParseReady
    /\ \E ok \in BOOLEAN :
          /\ ok => MayDeserialize(call.packet.json)
          /\ Returns(IF ok THEN Ok(call.packet.json) ELSE ErrAt("Json", "parse"))
    /\ UNCHANGED <<conns, calls, OtherVars>>

\* A write_all returns an io::Error after part of the bytes.
WriteFails ==
    /\ InCall("handshake") \/ InCall("query")
    /\ Cur.stream.kind = "some"
    /\ LET bytes == IF call.pc = "handshake" THEN HandshakeBytes(Cur) ELSE StatusQuery_to_bytes
           r     == ErrAt("Io", call.pc)
       IN  /\ \E k \in Cuts(bytes) :
                 conns' = [conns EXCEPT ![call.conn].stream = write_cut(@, bytes, call.pc, k)]
           /\ IF call.pc = "handshake" /\ AfterHandshake(call.op, r) # "return"
              THEN ret' = ret /\ call' = [call EXCEPT !.pc = "query"]
              ELSE Returns(r)
    /\ UNCHANGED <<calls, OtherVars>>

\* The read returns an io::Error.
ReadFails ==
    /\ InCall("read")
    /\ Cur.stream.kind = "some"
    /\ conns' = [conns EXCEPT ![call.conn].stream.reads = @ + 1]
    /\ Returns(ErrAt("Io", "read"))
    /\ UNCHANGED <<calls, OtherVars>>

\* The peer of the stream being written to stops taking bytes (its receive
\* window stays shut).  Only a write observes it.
PeerStopsAccepting ==
    /\ InCall("handshake") \/ InCall("query")
    /\ Cur.stream.kind = "some"
    /\ Cur.stream.accepts
    /\ conns' = [conns EXCEPT ![call.conn].stream.accepts = FALSE]
    /\ UNCHANGED <<call, calls, ret, OtherVars>>

NextConn ==
    \/ ConnNew
    \/ ConnTimeout
    \/ ConnProxy
    \/ Connect
    \/ StartSendHandshake
    \/ StartGetStatus
    \/ StartPing
    \/ HandshakeWrite
    \/ HandshakeTimeout
    \/ QueryWrite
    \/ ReadResponse
    \/ ParseStatus
    \/ WriteFails
    \/ ReadFails
    \/ PeerStopsAccepting

SpecConn == InitConn /\ [][NextConn]_vars


(***************************************************************************)
(* Reference definitions for the properties: the wire format computed on   *)
(* the integers, independently of the bit-vector conversions above.        *)
(***************************************************************************)
\* The VarInt wire form of a natural number.
RECURSIVE RefEnc(_)
RefEnc(n) == IF n < 128 THEN <<n>> ELSE <<(n % 128) + 128>> \o RefEnc(n \div 128)

\* The VarInt starting at index i (1-based) of q: its value and byte count.
\* ok is FALSE when no terminator lies within five bytes of q; val is -1
\* for a bit pattern with bit 31 set.
RefDec(q, i) ==
    LET ends == {k \in 1..VarIntSize : i + k - 1 <= Len(q) /\ q[i + k - 1] < 128
                                        /\ \A t \in 1..(k - 1) : q[i + t - 1] >= 128}
    IN  IF ends = {} THEN [ok |-> FALSE, val |-> 0, n |-> 0]
        ELSE LET k == CHOOSE x \in ends : TRUE
                 G(t) == q[i + t - 1] % 128
                 low == (IF k >= 1 THEN G(1) ELSE 0)
                            + (IF k >= 2 THEN G(2) * 128 ELSE 0)
                            + (IF k >= 3 THEN G(3) * 16384 ELSE 0)
                            + (IF k >= 4 THEN G(4) * 2097152 ELSE 0)
             IN  IF k = 5 /\ G(5) % 16 >= 8 THEN [ok |-> TRUE, val |-> 0 - 1, n |-> k]
                 ELSE [ok |-> TRUE, n |-> k,
                       val |-> low + (IF k = 5 THEN (G(5) % 8) * 268435456 ELSE 0)]

\* The number of 7-bit groups of the unsigned bit pattern b: one for zero.
MinGroups(b, W) ==
    IF IsZero(b, W) THEN 1
    ELSE LET h == CHOOSE i \in 0..(W - 1) : b[i] = 1 /\ \A j \in (i + 1)..(W - 1) : b[j] = 0
         IN  (h \div 7) + 1

\* The bytes of an inner array up to and including the first one without
\* the continuation bit: the encoded form.  <<>> if there is none.
Encoded(inner, SIZE) ==
    LET ends == {k \in 1..SIZE : inner[k - 1] < 128 /\ \A t \in 0..(k - 2) : inner[t] >= 128}
    IN  IF ends = {} THEN <<>>
        ELSE [i \in 1..(CHOOSE x \in ends : TRUE) |-> inner[i - 1]]

\* Group g (0-based) of the unsigned bit pattern b.
Group(b, g, W) ==
    LET bit(i) == IF i <= W - 1 THEN b[i] ELSE 0
    IN  bit(7 * g) + 2 * bit(7 * g + 1) + 4 * bit(7 * g + 2) + 8 * bit(7 * g + 3)
            + 16 * bit(7 * g + 4) + 32 * bit(7 * g + 5) + 64 * bit(7 * g + 6)

SizeOf(W) == IF W = I32Bits THEN VarIntSize ELSE VarLongSize

\* q is a response envelope whose length fields agree with its content.
WellFormedEnvelope(q) ==
    \E j \in 0..Len(q) :
        q = RefEnc(1 + Len(RefEnc(j)) + j) \o <<0>> \o RefEnc(j)
                \o SubSeq(q, Len(q) - j + 1, Len(q))

(***************************************************************************)
(* C1                                                                      *)
(***************************************************************************)
\* C1: converting any 32-bit value to a VarInt and back, or any 64-bit value
\* to a VarLong and back, yields exactly that value; and the groups of the
\* encoding are those of the unsigned bit pattern: group g of the value sits
\* in byte g, with no sign bits shifted into the last group.
C1_RoundTrip ==
    /\ cback.kind # "none" => cback = Ok(cval)
    /\ cvar.kind = "ok" =>
           LET e == Encoded(cvar.val, SizeOf(cW))
           IN  /\ Len(e) >= 1
               /\ \A g \in 0..(Len(e) - 1) : e[g + 1] % 128 = Group(cval, g, cW)
               /\ \A g \in Len(e)..(SizeOf(cW) - 1) : Group(cval, g, cW) = 0

\* The minimum 32-bit value has been converted and converted back.
C1_Witness ==
    /\ cW = I32Bits /\ cval = Pattern(31, 0, 1, 0, I32Bits)
    /\ cvar.kind = "ok" /\ cback.kind = "ok"

(***************************************************************************)
(* C2                                                                      *)
(***************************************************************************)
\* C2: the bytes of ClientHandshake::new(addr, port).to_bytes() are
\* VarInt(L), VarInt(0), VarInt(768), VarInt(byte length of addr), the bytes
\* of addr, the port's high and low byte, VarInt(1), with L the number of
\* bytes after the length field.
C2_HandshakeLayout ==
    hsout.kind = "ok" =>
        LET a    == hs.server_addr
            p    == hs.server_port
            rest == RefEnc(0) \o RefEnc(768) \o RefEnc(Len(a)) \o a
                        \o <<p \div 256, p % 256>> \o RefEnc(1)
        IN  hsout.val = RefEnc(Len(rest)) \o rest

\* A handshake for an address of 128 bytes or more has been serialized: the
\* address length and the packet length both take two bytes.
C2_Witness ==
    /\ hsout.kind = "ok"
    /\ Len(hs.server_addr) >= 128
    /\ hsout.val[1] >= 128
    /\ hs.server_port = 65535

(***************************************************************************)
(* C3                                                                      *)
(***************************************************************************)
\* C3: for a well-formed response envelope, however the transport splits
\* its bytes across reads, reading the status response returns the JSON
\* string that parsing the whole envelope gives.
C3_FragmentationIndependent ==
    (rpc = "done" /\ WellFormedEnvelope(sent)) =>
        /\ resp.kind = "ok"
        /\ resp.json = ServerQueryResponse_from(sent).json

(***************************************************************************)
(* C4                                                                      *)
(***************************************************************************)
\* The input holds three terminated VarInts and the third declares more
\* bytes than follow it.
DeclaresMoreThanPresent(q) ==
    LET d1 == RefDec(q, 1)
        d2 == RefDec(q, 1 + d1.n)
        d3 == RefDec(q, 1 + d1.n + d2.n)
    IN  /\ d1.ok /\ d2.ok /\ d3.ok
        /\ d3.val > Len(q) - (d1.n + d2.n + d3.n)

\* C4: parsing any byte sequence as a status response ends with the JSON
\* string or a typed error, never a panic; a JSON length that declares more
\* bytes than are present gives the error TruncatedString.
C4_NoPanic ==
    pres.op = "from" =>
        /\ pres.out.kind \in {"ok", "err"}
        /\ DeclaresMoreThanPresent(input) => pres.out = Err("TruncatedString")

(***************************************************************************)
(* C5                                                                      *)
(***************************************************************************)
\* The envelope declares a length N and fewer than N bytes follow the
\* length field in all the server sends.
DeclaredShort(q) ==
    LET d1 == RefDec(q, 1)
    IN  d1.ok /\ d1.val > Len(q) - d1.n

\* C5: when the envelope declares N bytes and the server closes the stream
\* after sending fewer, reading the status response fails with
\* IncompletePacket and returns no successful result.
C5_IncompletePacket ==
    (rpc = "done" /\ eof /\ DeclaredShort(sent)) => resp = Err("IncompletePacket")

(***************************************************************************)
(* C6                                                                      *)
(***************************************************************************)
\* The source starts with n continuation bytes and holds no terminator.
NoTerminator(q, n) == Len(q) >= n /\ \A i \in 1..Len(q) : q[i] >= 128

\* C6: decoding a VarInt from a source whose first 5 bytes have the
\* continuation bit set and that holds no terminator fails with the too-long
\* error (InvalidData), whether or not a byte follows the 5; likewise a
\* VarLong with 10; for the stream readers and for the slice reader.
C6_TooLong ==
    /\ (pres.op \in {"read_var_int", "read_varint"} /\ NoTerminator(input, VarIntSize))
           => pres.out = Err("InvalidData")
    /\ (pres.op = "read_var_long" /\ NoTerminator(input, VarLongSize))
           => pres.out = Err("InvalidData")

(***************************************************************************)
(* C7                                                                      *)
(***************************************************************************)
\* C7: the encoding of a value has exactly the number of 7-bit groups its
\* unsigned bit pattern needs (one byte 0x00 for zero, a nonzero last byte
\* otherwise), at most 5 bytes for a VarInt and 10 for a VarLong; size()
\* and every serializer agree with that number of bytes.
C7_MinimalEncoding ==
    cvar.kind = "ok" =>
        LET e == Encoded(cvar.val, SizeOf(cW))
        IN  /\ Len(e) = MinGroups(cval, cW)
            /\ Len(e) <= SizeOf(cW)
            /\ IF IsZero(cval, cW) THEN e = <<0>> ELSE e[Len(e)] # 0
            /\ csize # 0 => csize = Len(e)
            /\ cout.kind = "ok" => cout.val = e
            /\ (cout.kind = "ok" /\ csize # 0) => csize = Len(cout.val)

\* A negative 32-bit value has been encoded, measured and serialized: five
\* bytes.
C7_Witness ==
    /\ cW = I32Bits /\ cval = BitsOf(0 - 1, I32Bits)
    /\ cvar.kind = "ok" /\ csize = VarIntSize
    /\ cout.kind = "ok" /\ Len(cout.val) = VarIntSize

(***************************************************************************)
(* C8                                                                      *)
(***************************************************************************)
\* out is a terminated VarInt followed by exactly the bytes of rest.
LengthThen(out, rest) ==
    LET d == RefDec(out, 1)
    IN  d.ok /\ SubSeq(out, d.n + 1, Len(out)) = rest

IsDefault127 ==
    /\ hsout.kind = "ok"
    /\ hs.server_addr = Addr127 /\ hs.server_port = 25565

\* C8 as stated: the handshake for "127.0.0.1":25565 is the length VarInt,
\* 0x00, 0xC0 0x05, 0x09, "127.0.0.1", 0x63 0xCD, 0x01.
C8_AsStated ==
    IsDefault127 =>
        LengthThen(hsout.val, <<0, 192, 5, 9>> \o Addr127 \o <<99, 205, 1>>)

\* C8 amended: the handshake for "127.0.0.1":25565 is the length VarInt
\* (0x10), 0x00, 0x80 0x06 (the VarInt of 768), 0x09, "127.0.0.1",
\* 0x63 0xDD (25565 big-endian), 0x01.
C8_Amended ==
    IsDefault127 =>
        /\ LengthThen(hsout.val, <<0, 128, 6, 9>> \o Addr127 \o <<99, 221, 1>>)
        /\ hsout.val[1] = 16

\* The handshake for "127.0.0.1":25565 has been serialized.
C8_Witness == IsDefault127 /\ Len(hsout.val) = 17

(***************************************************************************)
(* C9                                                                      *)
(***************************************************************************)
\* C9: after new and any assignments to the public fields, the length
\* prefix to_bytes emits equals the number of bytes that follow it.
C9_LengthRecomputed ==
    hsout.kind = "ok" =>
        LET d == RefDec(hsout.val, 1)
        IN  d.ok /\ d.val = Len(hsout.val) - d.n

(***************************************************************************)
(* C10                                                                     *)
(***************************************************************************)
\* C10: a parsed response takes the packet id, the JSON length and the JSON
\* bytes from the N bytes after the length field only, N being the declared
\* length, and N is no more than the bytes available.
C10_WithinFrame ==
    (pres.op = "from" /\ pres.out.kind = "ok") =>
        LET N  == I32Value(i32_from(pres.out.len).val)
            jl == I32Value(i32_from(pres.out.json_len).val)
        IN  /\ N <= Len(input) - size(pres.out.len)
            /\ size(pres.out.packet_id) + size(pres.out.json_len) + jl <= N

(***************************************************************************)
(* C11.  The configured timeout bounds every I/O step of a status          *)
(* exchange: while get_status() or ping() runs on a connected Connection   *)
(* with a timeout set, against a server that never sends a byte and keeps  *)
(* the connection open, or that has stopped accepting writes, the call is  *)
(* never left waiting with nothing to end the wait: at the handshake       *)
(* write, the query write and the response read either the I/O can         *)
(* complete or a timer is pending that will return an error.               *)
(***************************************************************************)
ExchangeUnderTimeout ==
    /\ call.op \in {"get_status", "ping"}
    /\ Cur.stream.kind = "some"
    /\ Cur.timeout.kind = "some"
    /\ (Cur.stream.sent = <<>> /\ ~Cur.stream.eof) \/ ~Cur.stream.accepts

C11_TimeoutBoundsEveryStep == ExchangeUnderTimeout => CallStepReady

(***************************************************************************)
(* C12.  A single ping() on a connected Connection performs its steps in a *)
(* fixed order and stops at the first failure.  On a connected Connection  *)
(* whose only call is one ping(): at most two writes are made, first the   *)
(* handshake bytes built from the connection's own (addr, port), then the  *)
(* two bytes [0x01, 0x00]; the query is written only after the whole       *)
(* handshake was, the one read is made only after the whole query was, and *)
(* a result of deserialization comes only after that read; the bytes       *)
(* written are exactly those of the writes made, so always a prefix of     *)
(* handshake followed by query; and the step at which the ping returned an *)
(* error fixes what was done up to it.                                     *)
(***************************************************************************)
IsPrefixOf(p, q) == Len(p) <= Len(q) /\ SubSeq(q, 1, Len(p)) = p
CallsOn(i) == {k \in 1..Len(calls) : calls[k][2] = i /\ calls[k][1] # "connect"}
SinglePing(i) ==
    /\ conns[i].stream.kind = "some"
    /\ Cardinality(CallsOn(i)) = 1
    /\ \A k \in CallsOn(i) : calls[k][1] = "ping"
\* The single ping on i has returned and nothing was called since.
PingReturned(i) == Idle /\ ret.of = "ping" /\ calls[Len(calls)] = <<"ping", i>>

C12_PingOrder ==
    \A i \in 1..Len(conns) :
       SinglePing(i) =>
          LET st == conns[i].stream
              hb == HandshakeBytes(conns[i])
              q  == <<1, 0>>
              running == call.op = "ping" /\ call.conn = i
          IN  /\ IsPrefixOf(st.out, hb \o q)
              /\ Len(st.wlog) <= 2
              /\ Len(st.wlog) = 0 => st.out = <<>>
              /\ Len(st.wlog) = 1 =>
                    /\ st.wlog[1][1] = "handshake"
                    /\ st.out = SubSeq(hb, 1, st.wlog[1][2])
              /\ Len(st.wlog) = 2 =>
                    /\ st.wlog[1] = <<"handshake", Len(hb)>>
                    /\ st.wlog[2][1] = "query"
                    /\ st.out = hb \o SubSeq(q, 1, st.wlog[2][2])
              /\ st.reads <= 1
              /\ st.reads = 1 => st.wlog = <<<<"handshake", Len(hb)>>, <<"query", 2>>>>
              /\ running /\ call.pc = "handshake" => st.wlog = <<>> /\ st.reads = 0
              /\ running /\ call.pc = "query" => st.out = hb /\ st.reads = 0
              /\ running /\ call.pc = "read" => st.out = hb \o q /\ st.reads = 0
              /\ running /\ call.pc = "parse" => st.reads = 1
              /\ PingReturned(i) =>
                    /\ ret.res.kind = "ok" => st.reads = 1
                    /\ ret.res.kind = "err" =>
                          /\ ret.res.at = "handshake" =>
                                Len(st.wlog) = 1 /\ st.out # hb /\ st.reads = 0
                          /\ ret.res.at = "query" =>
                                Len(st.wlog) = 2 /\ st.out # hb \o q /\ st.reads = 0
                          /\ ret.res.at = "read" => st.out = hb \o q /\ st.reads = 1
                          /\ ret.res.at = "parse" => st.reads = 1

\* A single ping went through all four steps and returned a status.
C12_Witness ==
    \E i \in 1..Len(conns) :
       /\ SinglePing(i) /\ PingReturned(i) /\ ret.res.kind = "ok"
       /\ conns[i].stream.out = HandshakeBytes(conns[i]) \o <<1, 0>>
       /\ conns[i].stream.reads = 1

(***************************************************************************)
(* C13.  On a Connection whose stream is None, each of send_handshake(),   *)
(* get_status() and ping() returns an error and touches nothing: while     *)
(* such a call runs its next step is ready, and that step returns the      *)
(* not-connected error to the caller, leaves every field of every          *)
(* Connection as it was, and so writes to and reads from no transport.     *)
(***************************************************************************)
CallOnUnconnected ==
    /\ call.op \in {"send_handshake", "get_status", "ping"}
    /\ Cur.stream.kind = "none"

C13_NotConnected ==
    /\ [](CallOnUnconnected => CallStepReady)
    /\ [][CallOnUnconnected =>
            /\ conns' = conns
            /\ call'.op = "none"
            /\ ret'.of = call.op
            /\ ret'.res.kind = "err" /\ ret'.res.err = "NotConnected"]_vars

\* Two different calls were made on Connections without a stream, and the
\* last of them returned the not-connected error.
C13_Witness ==
    /\ Idle /\ Len(calls) = 2
    /\ calls[1][1] # calls[2][1]
    /\ calls[1][1] # "connect" /\ calls[2][1] # "connect"
    /\ conns[calls[1][2]].stream.kind = "none"
    /\ conns[calls[2][2]].stream.kind = "none"
    /\ ret.of = calls[2][1]
    /\ ret.res.kind = "err" /\ ret.res.err = "NotConnected"

(***************************************************************************)
(* C14.  Within one exchange on one connection the states are passed       *)
(* strictly forward for every sequence of calls to send_handshake(),       *)
(* get_status() and ping(): on every transport a status query is put on    *)
(* the wire only after a handshake has been, and at most one handshake is  *)
(* ever put on the wire.                                                   *)
(***************************************************************************)
\* The writes of packet pkt on stream st that put at least one byte on the wire.
OnWire(st, pkt) == {k \in 1..Len(st.wlog) : st.wlog[k][1] = pkt /\ st.wlog[k][2] > 0}

C14_StrictlyForward ==
    \A i \in 1..Len(conns) :
       conns[i].stream.kind = "some" =>
          LET st == conns[i].stream
          IN  /\ \A k \in OnWire(st, "query") : \E j \in OnWire(st, "handshake") : j < k
              /\ Cardinality(OnWire(st, "handshake")) <= 1

(***************************************************************************)
(* C15.  connect() never modifies the Connection it is called on: a        *)
(* connect step leaves the receiver, and every other existing Connection,  *)
(* exactly as it was (so a receiver made by new() still has stream None);  *)
(* on success the returned Connection has a stream and the receiver's      *)
(* addr, timeout and proxy_addr; on error no Connection is returned.       *)
(* Consequently send_handshake(), get_status() and ping() called on a      *)
(* receiver without a stream after its connect() succeeded still return    *)
(* the not-connected error.                                                *)
(***************************************************************************)
ConnectedFrom(i) == \E k \in 1..Len(calls) : calls[k] = <<"connect", i>>

C15_ConnectLeavesReceiver ==
    /\ [][Connect =>
            /\ \A i \in 1..Len(conns) : conns'[i] = conns[i]
            /\ ret'.of = "connect"
            /\ ret'.res.kind = "ok" =>
                  /\ Len(conns') = Len(conns) + 1
                  /\ ret'.res.val = Len(conns')
                  /\ conns'[Len(conns')].stream.kind = "some"
                  /\ conns'[Len(conns')].addr = conns[ret'.on].addr
                  /\ conns'[Len(conns')].timeout = conns[ret'.on].timeout
                  /\ conns'[Len(conns')].proxy_addr = conns[ret'.on].proxy_addr
            /\ ret'.res.kind # "ok" => conns' = conns]_vars
    /\ [][(CallOnUnconnected /\ ConnectedFrom(call.conn)) =>
            /\ call'.op = "none"
            /\ ret'.res.kind = "err" /\ ret'.res.err = "NotConnected"
            /\ conns' = conns]_vars

\* connect() on a Connection made by new() succeeded, the returned Connection
\* holds the stream, and a later call on the receiver returned not-connected.
C15_Witness ==
    /\ Idle /\ Len(calls) >= 2
    /\ LET last == calls[Len(calls)]
       IN  /\ last[1] \in {"send_handshake", "get_status", "ping"}
           /\ ret.of = last[1]
           /\ ret.res.kind = "err" /\ ret.res.err = "NotConnected"
           /\ ConnectedFrom(last[2])
           /\ conns[last[2]].stream.kind = "none"
           /\ \E j \in 1..Len(conns) :
                 /\ conns[j].stream.kind = "some"
                 /\ conns[j].addr = conns[last[2]].addr

====
